---------------------------- MODULE Spec2Model ----------------------------
(***************************************************************************)
(* Model of pip's src/pip/_internal/network/download.py: filename          *)
(* resolution for an HTTP response, and the Downloader (download_file,     *)
(* _download, _download_partial, _download_all) as a state machine over    *)
(* one download_file call.                                                 *)
(*                                                                         *)
(* Text (filenames, URLs, header parameter values) is a sequence of        *)
(* one-character strings.  File content is a sequence of blocks, each      *)
(* standing for BlockBytes bytes of a zip-like archive: data, central      *)
(* directory entries, and the end-of-central-directory record that says    *)
(* how many entries precede it.                                            *)
(***************************************************************************)
EXTENDS Integers, Sequences, FiniteSets, TLC

\* ------------------------------------------------------------------ bounds

\* Longest content-disposition filename parameter, as sent (SpecName).
MaxNameLen == 4
\* Probe attempts after which the model stops issuing requests (the code has no cap).
MaxAttempts == 3
\* Bytes one block of file content stands for.
BlockBytes == 4000
\* Blocks per chunk yielded by the response body iterator.
ChunkBlocks == 2
\* Digests are numbers modulo DigestMod.
DigestMod == 5

\* The default window of _download_partial (size=8000).
InitialWindow == 8000
\* The size above which progress is shown: 40 * 1000.
ProgressThreshold == 40000
\* logging.INFO
LoggingINFO == 20

\* -------------------------------------------------------------------- text

Strs(A, n) == UNION {[1..k -> A] : k \in 0..n}

\* str.rfind, 1-based: the last index of c in p, 0 when there is none.
RFind(p, c) ==
    LET I == {i \in 1..Len(p) : p[i] = c}
    IN  IF I = {} THEN 0 ELSE CHOOSE i \in I : \A j \in I : j <= i

\* str.find, 1-based: the first index of c in p, 0 when there is none.
Find(p, c) ==
    LET I == {i \in 1..Len(p) : p[i] = c}
    IN  IF I = {} THEN 0 ELSE CHOOSE i \in I : \A j \in I : i <= j

\* os.path.basename (posix): what follows the last "/".
os_path_basename(p) == SubSeq(p, RFind(p, "/") + 1, Len(p))

\* os.path.splitext(p)[1] (posix): from the last dot of the last path
\* component, unless only dots precede it in that component.
os_path_splitext_ext(p) ==
    LET sepIndex == RFind(p, "/")
        dotIndex == RFind(p, ".")
    IN  IF /\ dotIndex > sepIndex
           /\ \E k \in (sepIndex + 1)..(dotIndex - 1) : p[k] # "."
        THEN SubSeq(p, dotIndex, Len(p))
        ELSE <<>>

\* pip._internal.utils.misc.splitext(p)[1]: os.path.splitext, with a ".tar"
\* before the extension made part of it; empty exactly when the posix one is.
splitext_ext(p) == os_path_splitext_ext(p)

\* os.path.join(a, b) (posix): an absolute b replaces a.
os_path_join(a, b) ==
    IF Len(b) > 0 /\ b[1] = "/" THEN b
    ELSE IF Len(a) = 0 \/ a[Len(a)] = "/" THEN a \o b
    ELSE a \o <<"/">> \o b

\* The mutant of StripFragment that keeps the fragment.
StripFragmentKept(url) == url

\* url.split('#', 1)[0]
StripFragment(url) ==
    IF Find(url, "#") = 0 THEN url ELSE SubSeq(url, 1, Find(url, "#") - 1)

\* The decimal digits.
Digits == {"0", "1", "2", "3", "4", "5", "6", "7", "8", "9"}

DigitValue(c) ==
    CASE c = "0" -> 0 [] c = "1" -> 1 [] c = "2" -> 2 [] c = "3" -> 3
      [] c = "4" -> 4 [] c = "5" -> 5 [] c = "6" -> 6 [] c = "7" -> 7
      [] c = "8" -> 8 [] OTHER -> 9

DigitChar(d) ==
    CASE d = 0 -> "0" [] d = 1 -> "1" [] d = 2 -> "2" [] d = 3 -> "3"
      [] d = 4 -> "4" [] d = 5 -> "5" [] d = 6 -> "6" [] d = 7 -> "7"
      [] d = 8 -> "8" [] OTHER -> "9"

\* str(n) for n >= 0: the header text a length is sent as.
RECURSIVE DecimalText(_)
DecimalText(n) ==
    IF n < 10 THEN <<DigitChar(n)>>
    ELSE Append(DecimalText(n \div 10), DigitChar(n % 10))

\* Whether int(s) succeeds: an optional sign, then one digit or more.
\* Otherwise int raises ValueError.
IntParses(s) ==
    LET d == IF Len(s) > 0 /\ s[1] \in {"-", "+"} THEN Tail(s) ELSE s
    IN  Len(d) > 0 /\ \A i \in 1..Len(d) : d[i] \in Digits

RECURSIVE DigitsValue(_, _, _)
DigitsValue(d, i, acc) ==
    IF i > Len(d) THEN acc ELSE DigitsValue(d, i + 1, 10 * acc + DigitValue(d[i]))

\* int(s) of a text that parses.
IntValue(s) ==
    IF s[1] = "-" THEN 0 - DigitsValue(Tail(s), 1, 0)
    ELSE IF s[1] = "+" THEN DigitsValue(Tail(s), 1, 0)
    ELSE DigitsValue(s, 1, 0)

\* None, as _get_http_response_size returns it.
NoSize == [known |-> FALSE, value |-> 0]

\* -------------------------------------------------------- response headers

\* A header set is a function from the names of the headers present to their
\* values.  content-type is a string.  content-disposition is
\* [disp, params]: the disposition type and the sequence of its
\* parameters [name, value], the value as sent (quotes included).
HeaderPresent(headers, name) == name \in DOMAIN headers

\* The value cgi.parse_header gives a parameter: one pair of enclosing
\* double quotes removed.
Unquote(value) ==
    IF Len(value) >= 2 /\ value[1] = "\"" /\ value[Len(value)] = "\""
    THEN SubSeq(value, 2, Len(value) - 1)
    ELSE value

\* cgi.parse_header(line)[1].get(name): the unquoted value of the last
\* parameter of that name, <<>> (falsy, as None is) when there is none.
ParamGet(params, name) ==
    LET I == {i \in 1..Len(params) : params[i].name = name}
    IN  IF I = {} THEN <<>>
        ELSE Unquote(params[CHOOSE i \in I : \A j \in I : j <= i].value)

\* Truth value of the header string: false for the empty string.
HeaderTruthy(cd) == cd.disp # "" \/ cd.params # <<>>

sanitize_content_filename(filename) == os_path_basename(filename)

parse_content_disposition(content_disposition, default_filename) ==
    LET filename == ParamGet(content_disposition.params, "filename")
        sanitized == IF filename # <<>>
                     THEN sanitize_content_filename(filename)
                     ELSE filename
    IN  IF sanitized # <<>> THEN sanitized ELSE default_filename

\* mimetypes.guess_extension: the extension of a known type, <<>> (None)
\* for an unknown one and for ''.
guess_extension(content_type) ==
    CASE content_type = "application/zip" -> <<".", "z", "i", "p">>
      [] content_type = "text/plain" -> <<".", "t", "x", "t">>
      [] OTHER -> <<>>

\* filename = link.filename, overridden by the content-disposition header's
\* filename when the header is there and names one.
ContentDispositionStep(resp, link) ==
    IF /\ HeaderPresent(resp.headers, "content-disposition")
       /\ HeaderTruthy(resp.headers["content-disposition"])
    THEN parse_content_disposition(resp.headers["content-disposition"],
                                   link.filename)
    ELSE link.filename

\* ext = splitext(filename)[1]; without one, the extension guessed from the
\* content-type header is appended.  Gives the filename and ext.
ContentTypeStep(f, resp) ==
    LET ext == splitext_ext(f)
        guessed == guess_extension(
                       IF HeaderPresent(resp.headers, "content-type")
                       THEN resp.headers["content-type"] ELSE "")
    IN  IF ext # <<>> THEN [filename |-> f, ext |-> ext]
        ELSE IF guessed # <<>> THEN [filename |-> f \o guessed, ext |-> guessed]
        ELSE [filename |-> f, ext |-> <<>>]

\* The mutant of FinalUrlStep that never looks at the final URL.
FinalUrlStepSkipped(st, resp, link) == st.filename

\* if not ext and link.url != resp.url: the extension of resp.url is
\* appended when it has one.
FinalUrlStep(st, resp, link) ==
    IF st.ext = <<>> /\ link.url # resp.url
    THEN st.filename \o os_path_splitext_ext(resp.url)
    ELSE st.filename

_get_http_response_filename(resp, link) ==
    FinalUrlStep(ContentTypeStep(ContentDispositionStep(resp, link), resp),
                 resp, link)

\* ----------------------------------------------------------------- archive

\* Blocks of file content: "D" data, "M" "N" "T" central directory entries,
\* "E0".."E4" the end-of-central-directory record counting the entries.
Blocks == {"D", "M", "N", "T", "E0", "E1", "E2", "E3", "E4"}

EocdCount(b) ==
    CASE b = "E0" -> 0 [] b = "E1" -> 1 [] b = "E2" -> 2
      [] b = "E3" -> 3 [] b = "E4" -> 4 [] OTHER -> -1

IsEntry(b) == b \in {"M", "N", "T"}

\* The entry's name, as its path components.
EntryName(b) ==
    CASE b = "M" -> <<"a-1.dist-info", "METADATA">>
      [] b = "T" -> <<"METADATA">>
      [] OTHER -> <<"a", "mod.py">>

\* Whether ZipFile(path) opens a file of this content: it ends with the
\* end-of-central-directory record and the entries that record counts
\* precede it.  Otherwise ZipFile raises BadZipFile.
ZipOpens(content) ==
    /\ Len(content) >= 1
    /\ LET n == EocdCount(content[Len(content)])
       IN  /\ n >= 0
           /\ Len(content) >= n + 1
           /\ \A i \in (Len(content) - n)..(Len(content) - 1) : IsEntry(content[i])

\* ZipFile.namelist() of a file that opens.
namelist(content) ==
    LET n == EocdCount(content[Len(content)])
    IN  [i \in 1..n |-> EntryName(content[Len(content) - n - 1 + i])]

\* s.endswith('/METADATA')
EndsWithMetadata(name) == Len(name) >= 2 /\ name[Len(name)] = "METADATA"

\* any(s.endswith('/METADATA') for s in wheel.namelist())
HasMetadata(content) ==
    \E i \in 1..Len(namelist(content)) : EndsWithMetadata(namelist(content)[i])

\* The digest of a file's content.
Code(b) ==
    CASE b = "D" -> 1 [] b = "M" -> 2 [] b = "N" -> 3 [] b = "T" -> 4 [] OTHER -> 5

RECURSIVE DigestSum(_, _)
DigestSum(content, i) ==
    IF i > Len(content) THEN 0
    ELSE (i * Code(content[i]) + DigestSum(content, i + 1)) % DigestMod

Digest(content) == DigestSum(content, 1)

\* ------------------------------------------------------------------ inputs

TmpDir == <<"/", "t">>

A_whl == <<"a", ".", "w", "h", "l">>
B_whl == <<"b", ".", "w", "h", "l">>

\* The links: url, Link.filename (the last path component of the url) and
\* Link.is_wheel (the filename's extension is ".whl").
Links ==
    { [url |-> <<"h", "/", "a">>, filename |-> <<"a">>, is_wheel |-> FALSE],
      [url |-> <<"h", "/", "a", "#", "f">>, filename |-> <<"a">>, is_wheel |-> FALSE],
      [url |-> <<"h", "/">> \o A_whl, filename |-> A_whl, is_wheel |-> TRUE],
      [url |-> <<"h", "/">> \o A_whl \o <<"#", "f">>, filename |-> A_whl,
       is_wheel |-> TRUE] }

\* Final URLs of a redirected exchange.
RedirectUrls == { <<"c", "/", "b">>, <<"c", "/", "b", ".", "z">> }

\* The resource behind the url: a whole archive, or no archive at all.
Resources ==
    { <<"D", "M", "E1">>,
      <<"D", "N", "E1">>,
      <<"D", "T", "E1">>,
      <<"D", "N", "M", "E2">>,
      <<"D", "M", "N", "N", "N", "E4">>,
      <<"D", "N", "T", "E2">>,
      <<"E0">>,
      <<>>,
      <<"D", "D", "D">> }

NoHashes == [given |-> FALSE, allowed |-> {}]

\* hashes: None, or a Hashes object of allowed digests.
HashInputs(res) ==
    { NoHashes,
      [given |-> TRUE, allowed |-> {Digest(res)}],
      [given |-> TRUE, allowed |-> {(Digest(res) + 1) % DigestMod}] }

NoHeaders == [n \in {} |-> ""]

ContentDisposition(raw) ==
    [disp |-> "attachment", params |-> << [name |-> "filename", value |-> raw] >>]

\* The header sets a response of the download model carries.
ResponseHeaders ==
    { ct @@ cd :
        ct \in {NoHeaders, ("content-type" :> "application/zip")},
        cd \in {NoHeaders, ("content-disposition" :> ContentDisposition(B_whl))} }

\* ------------------------------------------------------------------ server

HEADERS == ("Accept-Encoding" :> "identity")

_get_range_headers(size) ==
    ("Accept-Encoding" :> "identity") @@ ("Range" :> [unit |-> "bytes", suffix |-> size])

Min(a, b) == IF a <= b THEN a ELSE b

\* The last `size` bytes of the resource, all of it when it is shorter.
RangeBody(res, size) ==
    LET n == Min(Len(res), size \div BlockBytes)
    IN  SubSeq(res, Len(res) - n + 1, Len(res))

\* session.get(url, headers=headers, stream=True): the responses the session
\* may give.  A request with a Range header is answered 206 with the tail
\* asked for, one without 200 with the whole resource, from the network or
\* from the cache; or the exchange fails.
SessionGet(url, headers, res) ==
    LET body == IF "Range" \in DOMAIN headers
                THEN RangeBody(res, headers["Range"].suffix) ELSE res
    IN
    { [status |-> IF "Range" \in DOMAIN headers THEN 206 ELSE 200,
       url |-> u, headers |-> h @@ cl, from_cache |-> c, body |-> body] :
        u \in {url} \cup RedirectUrls, h \in ResponseHeaders, c \in BOOLEAN,
        cl \in {NoHeaders, ("content-length" :> DecimalText(Len(body) * BlockBytes))} }
    \cup { [status |-> 404, url |-> url, headers |-> NoHeaders, from_cache |-> FALSE,
            body |-> <<>>] }

\* Response.raise_for_status raises HTTPError for a 4xx or 5xx status.
RaisesForStatus(r) == 400 <= r.status /\ r.status < 600

\* response_chunks(resp, CONTENT_CHUNK_SIZE): the body in order, in chunks
\* of at most ChunkBlocks blocks.
RECURSIVE response_chunks(_)
response_chunks(body) ==
    IF body = <<>> THEN <<>>
    ELSE <<SubSeq(body, 1, Min(ChunkBlocks, Len(body)))>>
         \o response_chunks(SubSeq(body, Min(ChunkBlocks, Len(body)) + 1, Len(body)))

\* is_from_cache(resp)
is_from_cache(r) == r.from_cache

\* _get_http_response_size: int(resp.headers['content-length']), None when
\* the header is missing (KeyError) or is no integer (ValueError).
_get_http_response_size(r) ==
    IF /\ HeaderPresent(r.headers, "content-length")
       /\ IntParses(r.headers["content-length"])
    THEN [known |-> TRUE, value |-> IntValue(r.headers["content-length"])]
    ELSE NoSize

\* Truth value of total_length: false for None and for 0.
SizeTruthy(total_length) == total_length.known /\ total_length.value # 0

\* _prepare_download's show_progress, lvl being logger.getEffectiveLevel().
show_progress(r, lvl) ==
    LET total_length == _get_http_response_size(r)
    IN  IF lvl > LoggingINFO THEN FALSE
        ELSE IF is_from_cache(r) THEN FALSE
        ELSE IF ~SizeTruthy(total_length) THEN TRUE
        ELSE IF total_length.value > ProgressThreshold THEN TRUE
        ELSE FALSE

\* _prepare_download's log record: "Using cached" or "Downloading".
PrepareLogRecord(r, l) ==
    [level |-> "INFO",
     msg |-> IF is_from_cache(r) THEN "Using cached" ELSE "Downloading",
     status |-> r.status, link |-> l.url]

\* _prepare_download: the chunks of the response.
_prepare_download(r) == response_chunks(r.body)

\* ------------------------------------------------------------------- state

VARIABLES
    pc,             \* where the call stands
    link,           \* download_file's link
    hashes,         \* download_file's hashes
    resource,       \* what the server holds at the link's url
    strategy,       \* "none", "partial" or "full"
    size,           \* _download_partial's size of the current attempt
    requests,       \* the requests issued, in order: [method, url, headers, stream]
    resp,           \* the response of the current exchange
    filename,       \* _get_http_response_filename of the current response
    chunks,         \* the chunks not yet read from the current response
    files,          \* the files on disk: path -> content
    handle,         \* content_file: "none", "open" or "closed"
    log,            \* the log records, in order
    result,         \* the (path, content-type) returned
    error,          \* the exception raised out of download_file, "none" if none
    verifierCalls,  \* calls of hashes.check_against_path
    level,          \* logger.getEffectiveLevel()
    bar             \* the progress wrapper: whether applied, and its updates

vars == <<pc, link, hashes, resource, strategy, size, requests, resp, filename,
          chunks, files, handle, log, result, error, verifierCalls, level, bar>>

NoBar == [shown |-> FALSE, updates |-> 0]

NoResponse ==
    [status |-> 0, url |-> <<>>, headers |-> NoHeaders, from_cache |-> FALSE,
     body |-> <<>>]
NoResult == [path |-> <<>>, content_type |-> ""]
NoFiles == [f \in {} |-> <<>>]

\* os.path.join(tmpdir, filename)
file_path == os_path_join(TmpDir, filename)

\* The mutant of ContentType that gives '' whatever the header.
ContentTypeDropped(r) == ""

\* response.headers.get('content-type', '')
ContentType(r) ==
    IF HeaderPresent(r.headers, "content-type") THEN r.headers["content-type"] ELSE ""

Init ==
    /\ pc = "call"
    /\ link \in Links
    /\ resource \in Resources
    /\ hashes \in HashInputs(resource)
    /\ strategy = "none"
    /\ size = 0
    /\ requests = <<>>
    /\ resp = NoResponse
    /\ filename = <<>>
    /\ chunks = <<>>
    /\ files = NoFiles
    /\ handle = "none"
    /\ log = <<>>
    /\ result = NoResult
    /\ error = "none"
    /\ verifierCalls = 0
    /\ level \in {LoggingINFO, LoggingINFO + 10}
    /\ bar = NoBar

\* ----------------------------------------------------------------- actions

\* The mutant of SelectStrategy with the condition "and hashes is None".
SelectStrategyUnlessHashes(l, h) ==
    IF l.is_wheel /\ ~h.given THEN "partial" ELSE "full"

\* download_file: if link.is_wheel, _download_partial, else _download_all.
SelectStrategy(l, h) == IF l.is_wheel THEN "partial" ELSE "full"

DownloadFile ==
    /\ pc = "call"
    /\ strategy' = SelectStrategy(link, hashes)
    /\ size' = IF strategy' = "partial" THEN InitialWindow ELSE 0
    /\ pc' = "request"
    /\ UNCHANGED <<link, hashes, resource, requests, resp, filename, chunks,
                   files, handle, log, result, error, verifierCalls,
                   level, bar>>

\* The mutant of HttpErrorOutcome that swallows the error and asks again.
HttpErrorRetries(r) ==
    /\ log' = log
    /\ error' = error
    /\ pc' = "request"

\* _download's except branch: the critical log record, then the raise.
HttpErrorOutcome(r) ==
    /\ log' = Append(log, [level |-> "CRITICAL", msg |-> "HTTP error",
                           status |-> r.status, link |-> link.url])
    /\ error' = "HTTPError"
    /\ pc' = "raised"

\* _download: the GET, raise_for_status, the filename and the chunks.
Download ==
    /\ pc = "request"
    /\ Len(requests) < MaxAttempts
    /\ LET url == StripFragment(link.url)
           headers == IF strategy = "partial" THEN _get_range_headers(size)
                      ELSE HEADERS
       IN  /\ requests' = Append(requests, [method |-> "GET", url |-> url,
                                          headers |-> headers, stream |-> TRUE])
           /\ \E r \in SessionGet(url, headers, resource) :
                /\ resp' = r
                /\ IF RaisesForStatus(r)
                   THEN /\ HttpErrorOutcome(r)
                        /\ UNCHANGED <<filename, chunks, bar>>
                   ELSE /\ filename' = _get_http_response_filename(r, link)
                        /\ chunks' = _prepare_download(r)
                        /\ bar' = [shown |-> show_progress(r, level), updates |-> 0]
                        /\ log' = Append(log, PrepareLogRecord(r, link))
                        /\ error' = error
                        /\ pc' = "open"
    /\ UNCHANGED <<link, hashes, resource, strategy, size, files, handle, result,
                   verifierCalls, level>>

\* The mutant of OpenForWrite that opens for appending.
OpenForAppend(fs, path) ==
    IF path \in DOMAIN fs THEN fs ELSE (path :> <<>>) @@ fs

\* The mutant of OpenForWrite that leaves only the file opened.
OpenForWriteAlone(fs, path) == (path :> <<>>)

\* open(file_path, 'wb'): the file created, or truncated if it exists.
OpenForWrite(fs, path) == (path :> <<>>) @@ fs

OpenFile ==
    /\ pc = "open"
    /\ files' = OpenForWrite(files, file_path)
    /\ handle' = "open"
    /\ pc' = "write"
    /\ UNCHANGED <<link, hashes, resource, strategy, size, requests, resp, filename,
                   chunks, log, result, error, verifierCalls, level, bar>>

\* The mutant of content_file_write that puts the chunk in front.
content_file_write_front(content, chunk) == chunk \o content

\* content_file.write(chunk): the chunk goes to the end of the file.
content_file_write(content, chunk) == content \o chunk

\* for chunk in chunks: content_file.write(chunk).  The progress wrapper,
\* when applied, is told of the chunk and hands it on as it is.
WriteChunk ==
    /\ pc = "write"
    /\ chunks # <<>>
    /\ files' = [files EXCEPT ![file_path] = content_file_write(@, Head(chunks))]
    /\ chunks' = Tail(chunks)
    /\ bar' = IF bar.shown THEN [bar EXCEPT !.updates = @ + 1] ELSE bar
    /\ UNCHANGED <<pc, link, hashes, resource, strategy, size, requests, resp,
                   filename, handle, log, result, error, verifierCalls, level>>

\* The mutant of CloseFile that leaves the with block before the chunks
\* are exhausted.
CloseFileEarly ==
    /\ pc = "write"
    /\ handle' = "closed"
    /\ pc' = IF strategy = "partial" THEN "zip" ELSE "hash"
    /\ UNCHANGED <<link, hashes, resource, strategy, size, requests, resp, filename,
                   chunks, files, log, result, error, verifierCalls,
                   level, bar>>

\* The end of the with block: the chunks are exhausted and the file is closed.
CloseFile ==
    /\ pc = "write"
    /\ chunks = <<>>
    /\ handle' = "closed"
    /\ pc' = IF strategy = "partial" THEN "zip" ELSE "hash"
    /\ UNCHANGED <<link, hashes, resource, strategy, size, requests, resp, filename,
                   chunks, files, log, result, error, verifierCalls,
                   level, bar>>

\* with ZipFile(file_path) as wheel: BadZipFile propagates when the file
\* does not open; otherwise whether an entry ends with '/METADATA'.
ProbeOutcome(content) ==
    IF ~ZipOpens(content) THEN "raise"
    ELSE IF HasMetadata(content) THEN "found"
    ELSE "retry"

\* _download_partial after the write: the index check, then the return or
\* the recursive call with size*2.
OpenZip ==
    /\ pc = "zip"
    /\ LET outcome == ProbeOutcome(files[file_path])
       IN  /\ pc' = CASE outcome = "raise" -> "raised"
                      [] outcome = "found" -> "done"
                      [] OTHER -> "request"
           /\ error' = IF outcome = "raise" THEN "BadZipFile" ELSE error
           /\ result' = IF outcome = "found"
                        THEN [path |-> file_path, content_type |-> ContentType(resp)]
                        ELSE result
           /\ size' = IF outcome = "retry" THEN size * 2 ELSE size
    /\ UNCHANGED <<link, hashes, resource, strategy, requests, resp, filename,
                   chunks, files, handle, log, verifierCalls, level, bar>>

\* Hashes.check_against_path: raises HashMismatch unless the file's digest
\* is one of the allowed digests.
check_against_path(h, content) == Digest(content) \in h.allowed

\* The mutant of ShouldVerify that skips the verification.
ShouldVerifyNever(h) == FALSE

\* if hashes:
ShouldVerify(h) == h.given

\* The mutant of VerifyOutcome that ignores the verifier's verdict.
VerifyOutcomeIgnored(h, content) == "return"

\* if hashes: hashes.check_against_path(file_path)
VerifyOutcome(h, content) ==
    IF ShouldVerify(h) /\ ~check_against_path(h, content) THEN "raise" ELSE "return"

\* _download_all after the write: the hash check, then the return.
CheckHashes ==
    /\ pc = "hash"
    /\ verifierCalls' = IF ShouldVerify(hashes) THEN verifierCalls + 1
                        ELSE verifierCalls
    /\ LET outcome == VerifyOutcome(hashes, files[file_path])
       IN  /\ pc' = IF outcome = "raise" THEN "raised" ELSE "done"
           /\ error' = IF outcome = "raise" THEN "HashMismatch" ELSE error
           /\ result' = IF outcome = "return"
                        THEN [path |-> file_path, content_type |-> ContentType(resp)]
                        ELSE result
    /\ UNCHANGED <<link, hashes, resource, strategy, size, requests, resp, filename,
                   chunks, files, handle, log, level, bar>>

Next ==
    \/ DownloadFile
    \/ Download
    \/ OpenFile
    \/ WriteChunk
    \/ CloseFile
    \/ OpenZip
    \/ CheckHashes

Spec == Init /\ [][Next]_vars

\* ------------------------------------------------- filename resolution alone

\* The characters of a content-disposition filename parameter, as sent.
NameChars == {"a", ".", "/", "\""}

\* The content-disposition headers: the empty header, one without a
\* filename parameter, and every filename parameter up to MaxNameLen.
NameDispositions ==
    { [disp |-> "", params |-> <<>>], [disp |-> "attachment", params |-> <<>>] }
    \cup { ContentDisposition(raw) : raw \in Strs(NameChars, MaxNameLen) }

NameHeaders ==
    { ct @@ cd :
        ct \in {NoHeaders} \cup
               { ("content-type" :> t) : t \in {"application/zip", "application/x-none"} },
        cd \in {NoHeaders} \cup
               { ("content-disposition" :> d) : d \in NameDispositions } }

\* The responses to a GET of the link: the final URL is the one asked for
\* or that of a redirect.
NameResponses(l) ==
    { [status |-> 200, url |-> u, headers |-> h, from_cache |-> FALSE, body |-> <<>>] :
        u \in {StripFragment(l.url)} \cup RedirectUrls, h \in NameHeaders }

InitName ==
    /\ pc = "name"
    /\ link \in Links
    /\ resp \in NameResponses(link)
    /\ resource = <<>>
    /\ hashes = NoHashes
    /\ strategy = "none"
    /\ size = 0
    /\ requests = <<>>
    /\ filename = <<>>
    /\ chunks = <<>>
    /\ files = NoFiles
    /\ handle = "none"
    /\ log = <<>>
    /\ result = NoResult
    /\ error = "none"
    /\ verifierCalls = 0
    /\ level = LoggingINFO
    /\ bar = NoBar

\* filename = _get_http_response_filename(resp, link)
ResolveName ==
    /\ pc = "name"
    /\ filename' = _get_http_response_filename(resp, link)
    /\ pc' = "named"
    /\ UNCHANGED <<link, hashes, resource, strategy, size, requests, resp, chunks,
                   files, handle, log, result, error, verifierCalls,
                   level, bar>>

NextName == ResolveName

SpecName == InitName /\ [][NextName]_vars

\* --------------------------------------------------- progress decision alone

\* Values of the content-length header: sizes around the threshold, zero,
\* a negative number, and texts that are no integer.
SizeTexts ==
    { <<"0">>, <<"1">>, <<"8","0","0","0">>, <<"3","9","9","9","9">>,
      <<"4","0","0","0","0">>, <<"4","0","0","0","1">>, <<"8","0","0","0","0">>,
      <<"-","1">>, <<"4","x">>, <<>> }

ProgressHeaders ==
    {NoHeaders} \cup { ("content-length" :> t) : t \in SizeTexts }

ProgressResponses ==
    { [status |-> 200, url |-> <<"h","/","a">>, headers |-> h, from_cache |-> c,
       body |-> <<>>] : h \in ProgressHeaders, c \in BOOLEAN }

\* logging.DEBUG .. logging.ERROR
LogLevels == { LoggingINFO - 10, LoggingINFO, LoggingINFO + 10, LoggingINFO + 20 }

InitProgress ==
    /\ pc = "progress"
    /\ link \in { l \in Links : l.url = <<"h","/","a">> }
    /\ resp \in ProgressResponses
    /\ level \in LogLevels
    /\ resource = <<>>
    /\ hashes = NoHashes
    /\ strategy = "none"
    /\ size = 0
    /\ requests = <<>>
    /\ filename = <<>>
    /\ chunks = <<>>
    /\ files = NoFiles
    /\ handle = "none"
    /\ log = <<>>
    /\ result = NoResult
    /\ error = "none"
    /\ verifierCalls = 0
    /\ bar = NoBar

\* The show_progress chain of _prepare_download.
DecideProgress ==
    /\ pc = "progress"
    /\ bar' = [shown |-> show_progress(resp, level), updates |-> 0]
    /\ pc' = "decided"
    /\ UNCHANGED <<link, hashes, resource, strategy, size, requests, resp,
                   filename, chunks, files, handle, log, result, error,
                   verifierCalls, level>>

NextProgress == DecideProgress

SpecProgress == InitProgress /\ [][NextProgress]_vars

\* ------------------------------------------------------------------ claims

Last(q) == q[Len(q)]

\* The components of a path, split at "/".
RECURSIVE SplitPath(_)
SplitPath(p) ==
    IF Find(p, "/") = 0 THEN <<p>>
    ELSE <<SubSeq(p, 1, Find(p, "/") - 1)>>
         \o SplitPath(SubSeq(p, Find(p, "/") + 1, Len(p)))

\* The components of an absolute path with "", "." and ".." resolved.
RECURSIVE Resolve(_, _, _)
Resolve(comps, i, stack) ==
    IF i > Len(comps) THEN stack
    ELSE IF comps[i] \in {<<>>, <<".">>} THEN Resolve(comps, i + 1, stack)
    ELSE IF comps[i] = <<".", ".">>
         THEN Resolve(comps, i + 1,
                      IF stack = <<>> THEN stack ELSE SubSeq(stack, 1, Len(stack) - 1))
    ELSE Resolve(comps, i + 1, Append(stack, comps[i]))

NormPath(p) == Resolve(SplitPath(p), 1, <<>>)

IsPrefix(a, b) == Len(a) <= Len(b) /\ SubSeq(b, 1, Len(a)) = a

\* The path names a place outside the destination directory.
Escapes(p) == ~IsPrefix(NormPath(TmpDir), NormPath(p))

\* The window the resource's index needs: the end-of-central-directory
\* record and the entries it counts.
WindowNeeded(res) == (EocdCount(Last(res)) + 1) * BlockBytes

\* The resource is an archive with an entry ending in '/METADATA'.
Resolvable(res) == ZipOpens(res) /\ HasMetadata(res)

\* The least n with w * 2^n >= K.
RECURSIVE RetriesNeeded(_, _)
RetriesNeeded(K, w) == IF w >= K THEN 0 ELSE 1 + RetriesNeeded(K, 2 * w)

\* C1: in the partial probe, when the bytes written for an attempt cannot
\* be opened as an archive, the probe does not raise and the next step is a
\* new probe with the window doubled.
C1_UnopenableArchiveRetries ==
    [][ (pc = "zip" /\ ~ZipOpens(files[file_path]))
            => (pc' = "request" /\ size' = 2 * size /\ error' = "none") ]_vars

\* C2: for a resource whose index, with an entry ending in '/METADATA', is
\* resolvable exactly when the window is >= K, a probe that meets no HTTP
\* error ends in success after the least number of doublings of 8000 that
\* reaches K, returning the path written and the response's content-type;
\* with K <= 8000 it makes exactly one request.
C2_ProbeRetryCount ==
    ( /\ strategy = "partial"
      /\ Resolvable(resource)
      /\ error # "HTTPError"
      /\ pc \in {"done", "raised"} )
        => /\ pc = "done"
           /\ Len(requests) = 1 + RetriesNeeded(WindowNeeded(resource), InitialWindow)
           /\ (WindowNeeded(resource) <= InitialWindow => Len(requests) = 1)
           /\ result = [path |-> file_path, content_type |-> ContentType(resp)]

\* The n-th request of a partial call asks for the last 8000 * 2^(n-1)
\* bytes, a positive window larger than the one before.
WindowsDouble(reqs) ==
    \A i \in 1..Len(reqs) :
        /\ "Range" \in DOMAIN reqs[i].headers
        /\ reqs[i].headers["Range"] =
               [unit |-> "bytes", suffix |-> InitialWindow * 2^(i - 1)]
        /\ reqs[i].headers["Range"].suffix > 0
        /\ i > 1 => reqs[i].headers["Range"].suffix > reqs[i - 1].headers["Range"].suffix

\* C3: on the partial path the windows requested are 8000, 16000, 32000,
\* ..., each positive and larger than the one before, and every failed
\* probe (entry not found, or archive not opened), whatever its number, is
\* followed by the next request.
C3_WindowSequenceUnbounded ==
    [][ /\ strategy' = "partial" => WindowsDouble(requests')
        /\ (pc = "zip" /\ ~Resolvable(files[file_path]))
               => (pc' = "request" /\ size' = 2 * size) ]_vars

\* C4: every download_file call takes exactly one of the two strategies,
\* the partial probe iff link.is_wheel, whatever the hashes and the
\* responses.
C4_StrategyByIsWheel ==
    pc # "call" /\ pc # "name" /\ pc # "named"
        => /\ strategy \in {"partial", "full"}
           /\ strategy = "partial" <=> link.is_wheel
           /\ \A i \in 1..Len(requests) :
                  "Range" \in DOMAIN requests[i].headers <=> link.is_wheel
           /\ pc = "zip" => link.is_wheel
           /\ pc = "hash" => ~link.is_wheel

C4_Witness ==
    pc = "done" /\ link.is_wheel /\ hashes.given /\ strategy = "partial"

\* C5: on the full path with hashes supplied, when the written file's
\* digest does not match, download_file ends with HashMismatch raised: no
\* result is returned, no further request is made, nothing more happens,
\* and the downloaded file is still there with the whole body.
C5_HashMismatchFails ==
    ( /\ strategy = "full"
      /\ hashes.given
      /\ pc \in {"done", "raised"}
      /\ error # "HTTPError"
      /\ Digest(files[file_path]) \notin hashes.allowed )
        => /\ pc = "raised"
           /\ error = "HashMismatch"
           /\ result = NoResult
           /\ Len(requests) = 1
           /\ file_path \in DOMAIN files
           /\ files[file_path] = resp.body
           /\ ~ENABLED Next

C5_Witness ==
    error = "HashMismatch" /\ file_path \in DOMAIN files /\ resp.body # <<>>

\* C6: the verifier is called at most once, only on the full path with
\* hashes supplied and only once every chunk is written and the file is
\* closed; a full download with hashes that gets past the write calls it;
\* a call for a wheel never does, hashes or not.
C6_VerifierCalls ==
    /\ verifierCalls <= 1
    /\ verifierCalls = 1
           => /\ strategy = "full"
              /\ ~link.is_wheel
              /\ hashes.given
              /\ chunks = <<>>
              /\ handle = "closed"
              /\ files[file_path] = resp.body
    /\ (strategy = "full" /\ hashes.given /\ pc \in {"done", "raised"}
            /\ error # "HTTPError") => verifierCalls = 1
    /\ link.is_wheel => verifierCalls = 0
    /\ ~hashes.given => verifierCalls = 0

C6_Witness ==
    verifierCalls = 1 /\ pc = "done" /\ Len(response_chunks(resp.body)) > 1

\* C7: after any probe attempt has finished writing, the file at its path
\* holds exactly that attempt's response body, and no other file of an
\* earlier attempt is in the destination directory.
C7_RetryOverwrites ==
    ( /\ strategy = "partial"
      /\ \/ pc \in {"zip", "done"}
         \/ pc = "raised" /\ error = "BadZipFile" )
        => /\ files[file_path] = resp.body
           /\ DOMAIN files = {file_path}

\* C8: an exchange that returns an error status logs one critical record
\* with the status code and the link and raises HTTPError: no file is
\* opened or written for it, nothing is returned, and the call takes no
\* further step.
C8_HttpErrorPropagates ==
    [][ /\ (Len(requests') > Len(requests) /\ RaisesForStatus(resp'))
            => /\ error' = "HTTPError"
               /\ pc' = "raised"
               /\ log' = Append(log, [level |-> "CRITICAL", msg |-> "HTTP error",
                                      status |-> resp'.status, link |-> link.url])
               /\ files' = files
               /\ handle' = handle
               /\ chunks' = chunks
               /\ result' = NoResult
        /\ error # "HTTPError" ]_vars

C8_Witness ==
    /\ error = "HTTPError"
    /\ Len(requests) = 2
    /\ Last(log).level = "CRITICAL"
    /\ files # NoFiles

\* The filename parameter of the response's content-disposition header,
\* unquoted; <<>> when there is none.
SentFilename(r) ==
    IF HeaderPresent(r.headers, "content-disposition")
    THEN ParamGet(r.headers["content-disposition"].params, "filename")
    ELSE <<>>

HasTraversal(f) == \E i \in 1..Len(SplitPath(f)) : SplitPath(f)[i] = <<".", ".">>

\* C9: the resolved filename is non-empty and has no path separator; a
\* content-disposition filename with path-traversal segments gives its base
\* name; and the path joined with the destination directory does not
\* escape it.
C9_FilenameStaysInside ==
    pc = "named"
        => /\ filename # <<>>
           /\ \A i \in 1..Len(filename) : filename[i] # "/"
           /\ (HasTraversal(SentFilename(resp)) /\ os_path_basename(SentFilename(resp)) # <<>>)
                  => IsPrefix(os_path_basename(SentFilename(resp)), filename)
           /\ ~Escapes(os_path_join(TmpDir, filename))

NoNamingHeaders(r) ==
    /\ ~HeaderPresent(r.headers, "content-disposition")
    /\ ~HeaderPresent(r.headers, "content-type")

\* C10 as stated: without content-disposition and content-type the filename
\* is the link's filename, unchanged, whatever the URLs.
C10_FallbackUnchanged ==
    (pc = "named" /\ NoNamingHeaders(resp)) => filename = link.filename

\* C10: without content-disposition and content-type the filename is the
\* link's filename, unchanged, unless that filename has no extension and
\* the response's final URL differs from link.url: then the extension of
\* the final URL, if it has one, is appended.
C10_FallbackOrBorrowedExtension ==
    (pc = "named" /\ NoNamingHeaders(resp))
        => filename = IF splitext_ext(link.filename) = <<>> /\ resp.url # link.url
                      THEN link.filename \o os_path_splitext_ext(resp.url)
                      ELSE link.filename

C10_Witness ==
    /\ pc = "named"
    /\ NoNamingHeaders(resp)
    /\ resp.url # link.url
    /\ filename = link.filename \o <<".", "z">>

\* C11: the progress decision is false when the logging level suppresses
\* informational output; else false when the response came from the cache;
\* else true when the total size is absent; else true exactly when the known
\* size is greater than 40000, so false for every known size from 0 to 40000.
C11_ProgressDecision ==
    pc = "decided" =>
        LET total_length == _get_http_response_size(resp)
        IN  bar.shown =
                IF level > LoggingINFO THEN FALSE
                ELSE IF resp.from_cache THEN FALSE
                ELSE IF ~total_length.known THEN TRUE
                ELSE total_length.value > ProgressThreshold

\* The chunks joined in order.
RECURSIVE Flatten(_)
Flatten(q) == IF q = <<>> THEN <<>> ELSE Head(q) \o Flatten(Tail(q))

\* C12: streaming to disk preserves content and order: while an attempt is
\* written, the file followed by the chunks still to come is the response
\* body; once the file is closed it is the response body, the concatenation
\* of the chunks in the order received, and a progress wrapper that was
\* applied has seen each chunk once.
C12_StreamingPreservesBody ==
    /\ pc = "write" =>
            /\ files[file_path] \o Flatten(chunks) = resp.body
            /\ bar.shown =>
                    bar.updates + Len(chunks) = Len(response_chunks(resp.body))
    /\ (pc \in {"zip", "hash", "done"}
            \/ (pc = "raised" /\ error \in {"BadZipFile", "HashMismatch"})) =>
            /\ files[file_path] = resp.body
            /\ files[file_path] = Flatten(response_chunks(resp.body))
            /\ bar.shown => bar.updates = Len(response_chunks(resp.body))

\* A download of several chunks, passed through the progress wrapper, is done.
C12_Witness ==
    /\ pc = "done"
    /\ Len(response_chunks(resp.body)) > 1
    /\ bar.shown
    /\ files[file_path] = resp.body

\* C13: every request issued is a streaming GET to the link URL up to its
\* fragment, and carries exactly Accept-Encoding: identity on the full path
\* (no Range), or exactly Accept-Encoding: identity and Range: bytes=-N with
\* N > 0 on the partial path.
C13_RequestShape ==
    \A i \in 1..Len(requests) :
        LET q == requests[i]
        IN  /\ q.method = "GET"
            /\ q.stream
            /\ Find(q.url, "#") = 0
            /\ IsPrefix(q.url, link.url)
            /\ (q.url = link.url \/ link.url[Len(q.url) + 1] = "#")
            /\ q.headers["Accept-Encoding"] = "identity"
            /\ strategy = "full" => DOMAIN q.headers = {"Accept-Encoding"}
            /\ strategy = "partial" =>
                    /\ DOMAIN q.headers = {"Accept-Encoding", "Range"}
                    /\ q.headers["Range"].unit = "bytes"
                    /\ q.headers["Range"].suffix > 0
            /\ strategy \in {"full", "partial"}

\* A second probe request was issued for a link that carries a fragment.
C13_Witness ==
    /\ Len(requests) >= 2
    /\ strategy = "partial"
    /\ Find(link.url, "#") # 0

\* C14: no step of a download_file call deletes a file: every file present
\* before a step is present after it, whatever the call ends in.
C14_NoFileDeleted ==
    [][ DOMAIN files \subseteq DOMAIN files' ]_vars

\* Two probe attempts wrote files of different names and the call then
\* failed; both files are there.
C14_Witness ==
    /\ pc = "raised"
    /\ Cardinality(DOMAIN files) >= 2

\* The index check of the attempt just written found no '/METADATA' entry.
IndexCheckFailed ==
    ~(ZipOpens(files[file_path]) /\ HasMetadata(files[file_path]))

\* Where a probe stands: chunks are pending only between the request and the
\* close; the index is checked only on a closed file holding the whole
\* response; a further request is due only after a failed index check.
ProbeInOrder ==
    strategy = "partial" =>
        /\ chunks # <<>> => pc \in {"open", "write"}
        /\ handle = "open" <=> pc = "write"
        /\ pc = "zip" =>
                /\ chunks = <<>>
                /\ handle = "closed"
                /\ files[file_path] = resp.body
        /\ (pc = "request" /\ requests # <<>>) =>
                /\ chunks = <<>>
                /\ handle = "closed"
                /\ IndexCheckFailed

\* C15: probe attempts are strictly sequential: the request, then all chunks
\* written and the file closed, then the index check; a request is issued
\* only at the start or after the failed index check of the attempt before,
\* one at a time; no file is written outside an attempt's write phase, so
\* none after its index check.
C15_ProbeSequential ==
    [][ strategy' = "partial" =>
            /\ ProbeInOrder'
            /\ requests' # requests =>
                    /\ pc = "request" /\ pc' \in {"open", "raised"}
                    /\ Len(requests') = Len(requests) + 1
                    /\ chunks = <<>> /\ handle # "open"
            /\ files' # files => pc \in {"open", "write"}
            /\ pc = "zip" => (files' = files /\ chunks' = <<>>) ]_vars

\* The second attempt's file is written and closed and its index check is due.
C15_Witness ==
    /\ strategy = "partial"
    /\ pc = "zip"
    /\ Len(requests) >= 2
    /\ Len(response_chunks(resp.body)) > 1

\* C16: the extension of the final URL is appended only when the filename
\* has no extension after the content-disposition and content-type steps
\* and the final URL differs from the URL requested, which is the link URL
\* up to its fragment; when the final URL is the URL requested nothing is
\* borrowed, also for a link with a fragment.  At most one extension is
\* appended to the filename of the content-disposition step.
C16_BorrowOnlyAfterRedirect ==
    pc = "named" =>
        LET named == ContentDispositionStep(resp, link)
            st == ContentTypeStep(named, resp)
            requested == StripFragment(link.url)
        IN  /\ filename =
                    IF st.ext = <<>> /\ resp.url # requested
                    THEN st.filename \o os_path_splitext_ext(resp.url)
                    ELSE st.filename
            /\ filename \in { named, st.filename,
                               named \o os_path_splitext_ext(resp.url) }

\* C17: the full path issues exactly one GET whatever the outcome; the
\* partial path issues one GET per probe attempt, the k-th with the k-th
\* window; once an index check finds a '/METADATA' entry the call is over,
\* no further request is issued, and the result is the path written and the
\* content-type of that attempt's response, '' when the header is absent.
C17_RequestsTiedToOutcome ==
    /\ Len(log) = Len(requests)
    /\ strategy = "none" => requests = <<>>
    /\ strategy = "full" =>
            Len(requests) = IF pc = "request" THEN 0 ELSE 1
    /\ strategy = "partial" =>
            /\ size = InitialWindow *
                        2^(IF pc = "request" THEN Len(requests)
                           ELSE Len(requests) - 1)
            /\ \A i \in 1..Len(requests) :
                    requests[i].headers["Range"].suffix = InitialWindow * 2^(i - 1)
    /\ (strategy = "partial" /\ pc = "done") =>
            /\ ZipOpens(files[result.path])
            /\ HasMetadata(files[result.path])
            /\ files[result.path] = resp.body
            /\ result.path = os_path_join(TmpDir, filename)
            /\ result.content_type =
                    IF "content-type" \in DOMAIN resp.headers
                    THEN resp.headers["content-type"] ELSE ""
            /\ ~ENABLED Next

\* A probe attempt found the entry and the call returned the content-type
\* of its response.
C17_Witness ==
    /\ strategy = "partial"
    /\ pc = "done"
    /\ Len(requests) = 1
    /\ result.content_type = "application/zip"

====
